---- MODULE Spec2Model ----
(***************************************************************************)
(* Process scheduler (Project1/main.go): the four schedulers FCFSSchedule, *)
(* SJFSchedule, SJFPrioritySchedule and RRSchedule, and main's sequence of *)
(* calls on one shared slice of processes.                                 *)
(*                                                                         *)
(* Indexes are 1-based here (Go's index i is i+1).  The float64 totals     *)
(* only ever hold integers, so they are integers here; a float64 division  *)
(* is FDiv, which keeps Go's NaN and +Inf/-Inf for a zero divisor.         *)
(***************************************************************************)
EXTENDS Integers, Sequences, FiniteSets, TLC

\* ---------------------------------------------------------------- bounds
MaxProcs == 2
MaxArrival == 1
MinBurst == 0
MaxBurst == 2
MaxPriority == 1
MaxQuantum == 3
FirstPID == 9
Slack == 1

\* ------------------------------------------------------- program constants
MainQuantum == 10
MaxInt64 == 2147483647

VARIABLES
    processes,          \* the caller's slice, shared by the four calls
    alg,                \* the scheduler main is at
    pc,                 \* position inside it
    timeQuantum,        \* RRSchedule's parameter
    serviceTime,
    totalWait,
    totalTurnaround,
    lastCompletion,
    waitingTime,        \* FCFS/SJF: the single int64
    waitingTimes,       \* Priority/RR: the []int64
    remainingTime,
    schedule,           \* rows of strings
    gantt,              \* TimeSlices
    i,                  \* index of the range loop in progress
    completed,          \* RR: the flag as the last scan left it
    summary             \* what outputSchedule was given, <<>> before

vars == <<processes, alg, pc, timeQuantum, serviceTime, totalWait,
          totalTurnaround, lastCompletion, waitingTime, waitingTimes,
          remainingTime, schedule, gantt, i, completed, summary>>

Process(id, arrival, burst, priority) ==
    [ProcessID |-> id, ArrivalTime |-> arrival,
     BurstDuration |-> burst, Priority |-> priority]

TimeSlice(pid, start, stop) == [PID |-> pid, Start |-> start, Stop |-> stop]

\* fmt.Sprint / strconv.FormatInt of an integer: its decimal text.
Sprint(v) == ToString(v)

\* Go's float64 division: a zero divisor gives NaN or an infinity, no panic.
FDiv(a, b) ==
    IF b # 0 THEN [kind |-> "finite", num |-> a, den |-> b]
    ELSE IF a = 0 THEN [kind |-> "NaN", num |-> a, den |-> b]
    ELSE IF a > 0 THEN [kind |-> "+Inf", num |-> a, den |-> b]
    ELSE [kind |-> "-Inf", num |-> a, den |-> b]

containsPID(sched, pid) ==
    \E k \in 1..Len(sched) : Sprint(pid) = sched[k][1]

RECURSIVE lastArrivalFrom(_, _, _)
lastArrivalFrom(ps, k, lastArrival) ==
    IF k > Len(ps) THEN lastArrival
    ELSE lastArrivalFrom(ps, k + 1,
             IF ps[k].ArrivalTime > lastArrival THEN ps[k].ArrivalTime
             ELSE lastArrival)

lastArrivalTime(ps) == lastArrivalFrom(ps, 1, 0)

\* ------------------------------------------------------------------ inputs
Records(n) ==
    { ps \in [1..n -> [ProcessID : FirstPID..(FirstPID + MaxProcs - 1),
                       ArrivalTime : 0..MaxArrival,
                       BurstDuration : MinBurst..MaxBurst,
                       Priority : 0..MaxPriority]] :
        \A k \in 1..n : ps[k].ProcessID = FirstPID + k - 1 }

\* The worked inputs of the specification's testable properties.
ExampleRR == <<Process(1, 0, 7, 0)>>

ExamplePriority == <<Process(1, 0, 5, 2), Process(2, 1, 3, 1)>>

ExampleFCFS == <<Process(1, 0, 5, 0), Process(2, 1, 3, 0), Process(3, 2, 2, 0)>>

ExampleSJF ==
    <<Process(1, 0, 8, 0), Process(2, 0, 4, 0), Process(3, 0, 9, 0),
      Process(4, 0, 5, 0)>>

Examples == {ExampleRR, ExamplePriority, ExampleFCFS, ExampleSJF}

Inputs == (UNION { Records(n) : n \in 0..MaxProcs }) \cup Examples

Quanta == (-1 .. MaxQuantum) \cup {MainQuantum}

Zeros(n) == [k \in 1..n |-> 0]

\* The locals of a scheduler as its var block leaves them.
Locals(ps) ==
    /\ serviceTime' = 0
    /\ totalWait' = 0
    /\ totalTurnaround' = 0
    /\ lastCompletion' = 0
    /\ waitingTime' = 0
    /\ waitingTimes' = Zeros(Len(ps))
    /\ remainingTime' = [k \in 1..Len(ps) |-> ps[k].BurstDuration]
    /\ gantt' = <<>>
    /\ i' = 1
    /\ completed' = FALSE
    /\ summary' = <<>>

Init ==
    /\ processes \in Inputs
    /\ alg \in {"FCFS", "SJF", "Priority", "RR"}
    /\ pc = "call"
    /\ timeQuantum = 0
    /\ serviceTime = 0
    /\ totalWait = 0
    /\ totalTurnaround = 0
    /\ lastCompletion = 0
    /\ waitingTime = 0
    /\ waitingTimes = <<>>
    /\ remainingTime = <<>>
    /\ schedule = <<>>
    /\ gantt = <<>>
    /\ i = 1
    /\ completed = FALSE
    /\ summary = <<>>

\* ------------------------------------------------- FCFSSchedule, SJFSchedule
FCFSCall ==
    /\ pc = "call" /\ alg = "FCFS"
    /\ Locals(processes)
    /\ schedule' = [k \in 1..Len(processes) |-> <<>>]
    /\ pc' = IF Len(processes) = 0 THEN "out" ELSE "loop"
    /\ UNCHANGED <<processes, alg, timeQuantum>>

SJFCall ==
    /\ pc = "call" /\ alg = "SJF"
    /\ Locals(processes)
    /\ schedule' = [k \in 1..Len(processes) |-> <<>>]
    /\ pc' = "sort"
    /\ UNCHANGED <<processes, alg, timeQuantum>>

\* Variant of SortedByBurst that leaves the slice as it was passed in.
SortedByBurstKeepsOrder(ps) == {ps}

\* sort.Slice by BurstDuration: some permutation of the slice in
\* non-decreasing burst order; the order of equal bursts is not promised.
SortedByBurst(ps) ==
    { [k \in 1..Len(ps) |-> ps[f[k]]] :
        f \in { g \in [1..Len(ps) -> 1..Len(ps)] :
                  /\ \A a, b \in 1..Len(ps) : a # b => g[a] # g[b]
                  /\ \A a, b \in 1..Len(ps) :
                        a < b => ~(ps[g[b]].BurstDuration < ps[g[a]].BurstDuration) } }

SJFSort ==
    /\ pc = "sort" /\ alg = "SJF"
    /\ processes' \in SortedByBurst(processes)
    /\ pc' = IF Len(processes) = 0 THEN "out" ELSE "loop"
    /\ UNCHANGED <<alg, timeQuantum, serviceTime, totalWait, totalTurnaround,
                   lastCompletion, waitingTime, waitingTimes, remainingTime,
                   schedule, gantt, i, completed, summary>>

\* Variant of NewWaitingTime that forgets to subtract the arrival time.
NewWaitingTimeNoArrival(p) ==
    IF p.ArrivalTime > 0 THEN serviceTime ELSE waitingTime

\* waitingTime is declared outside the loop: it keeps the previous
\* process's value when ArrivalTime is 0.
NewWaitingTime(p) ==
    IF p.ArrivalTime > 0 THEN serviceTime - p.ArrivalTime ELSE waitingTime

\* One iteration of the range loop, the same text in both functions.
ServeStep ==
    LET p == processes[i]
        wt == NewWaitingTime(p)
        start == wt + p.ArrivalTime
        turnaround == p.BurstDuration + wt
        completion == p.BurstDuration + p.ArrivalTime + wt
    IN  /\ pc = "loop"
        /\ waitingTime' = wt
        /\ totalWait' = totalWait + wt
        /\ totalTurnaround' = totalTurnaround + turnaround
        /\ lastCompletion' = completion
        /\ schedule' = [schedule EXCEPT ![i] =
                          <<Sprint(p.ProcessID), Sprint(p.Priority),
                            Sprint(p.BurstDuration), Sprint(p.ArrivalTime),
                            Sprint(wt), Sprint(turnaround), Sprint(completion)>>]
        /\ serviceTime' = serviceTime + p.BurstDuration
        /\ gantt' = Append(gantt, TimeSlice(p.ProcessID, start,
                                            serviceTime + p.BurstDuration))
        /\ i' = i + 1
        /\ pc' = IF i = Len(processes) THEN "out" ELSE "loop"
        /\ UNCHANGED <<processes, alg, timeQuantum, waitingTimes,
                       remainingTime, completed, summary>>

FCFSStep == alg = "FCFS" /\ ServeStep

SJFStep == alg = "SJF" /\ ServeStep

\* count, the three divisions and the three output calls.
ServeOutput ==
    /\ pc = "out" /\ alg \in {"FCFS", "SJF"}
    /\ summary' = [aveWait |-> FDiv(totalWait, Len(processes)),
                   aveTurnaround |-> FDiv(totalTurnaround, Len(processes)),
                   aveThroughput |-> FDiv(Len(processes), lastCompletion)]
    /\ pc' = "done"
    /\ UNCHANGED <<processes, alg, timeQuantum, serviceTime, totalWait,
                   totalTurnaround, lastCompletion, waitingTime, waitingTimes,
                   remainingTime, schedule, gantt, i, completed>>

FCFSOutput == alg = "FCFS" /\ ServeOutput

SJFOutput == alg = "SJF" /\ ServeOutput

\* ------------------------------------------------------ SJFPrioritySchedule
\* Variant of LoopCond whose row test is <=: the loop goes on with every
\* row written.
LoopCondRowsInclusive(st, sched) ==
    st < lastArrivalTime(processes) \/ Len(sched) <= Len(processes)

\* The condition of both main loops.
LoopCond(st, sched) ==
    st < lastArrivalTime(processes) \/ Len(sched) < Len(processes)

RECURSIVE SumBursts(_, _)
SumBursts(ps, k) ==
    IF k > Len(ps) THEN 0 ELSE ps[k].BurstDuration + SumBursts(ps, k + 1)

\* The loops have no bound of their own.  A run on positive bursts with a
\* positive quantum emits at most SumBursts slices and leaves its loop before
\* serviceTime passes lastArrivalTime + 2 * SumBursts; the model follows
\* every run Slack steps further than that and no further.
WithinBounds ==
    /\ serviceTime < lastArrivalTime(processes) + 2 * SumBursts(processes, 1) + Slack
    /\ Len(gantt) < SumBursts(processes, 1) + Slack

PriorityCall ==
    /\ pc = "call" /\ alg = "Priority"
    /\ Locals(processes)
    /\ schedule' = <<>>
    /\ pc' = IF LoopCond(0, <<>>) THEN "loop" ELSE "out"
    /\ UNCHANGED <<processes, alg, timeQuantum>>

\* Variant of SelectFrom whose comparison is <=: among equal priorities the
\* last index wins.
RECURSIVE SelectFromLastWins(_, _, _, _)
SelectFromLastWins(k, st, selected, Shortest) ==
    IF k > Len(processes) THEN selected
    ELSE IF /\ processes[k].ArrivalTime <= st
            /\ remainingTime[k] > 0
            /\ processes[k].Priority <= Shortest
         THEN SelectFromLastWins(k + 1, st, k, processes[k].Priority)
         ELSE SelectFromLastWins(k + 1, st, selected, Shortest)

\* The selection scan: index of the chosen process, 0 for Go's -1.
RECURSIVE SelectFrom(_, _, _, _)
SelectFrom(k, st, selected, Shortest) ==
    IF k > Len(processes) THEN selected
    ELSE IF /\ processes[k].ArrivalTime <= st
            /\ remainingTime[k] > 0
            /\ processes[k].Priority < Shortest
         THEN SelectFrom(k + 1, st, k, processes[k].Priority)
         ELSE SelectFrom(k + 1, st, selected, Shortest)

Select(st) == SelectFrom(1, st, 0, MaxInt64)

\* The loop that zeroes waitingTime of the processes arriving exactly at st
\* that have no row yet.
ResetArrivals(wts, st, rem, sched) ==
    [k \in 1..Len(processes) |->
        IF /\ processes[k].ArrivalTime = st
           /\ rem[k] > 0
           /\ ~containsPID(sched, processes[k].ProcessID)
        THEN 0 ELSE wts[k]]

\* The row appended at a process's first dispatch.
PriorityRow(p, wt, st) ==
    <<Sprint(p.ProcessID), Sprint(p.Priority), Sprint(p.BurstDuration),
      Sprint(p.ArrivalTime), Sprint(wt),
      Sprint(totalTurnaround + (st - p.ArrivalTime)),
      Sprint(totalTurnaround + (st - p.ArrivalTime + p.BurstDuration))>>

\* serviceTime moves only on an idle iteration.
PriorityServiceTime(selected) ==
    IF selected > 0 THEN serviceTime ELSE serviceTime + 1

\* One iteration of the main loop.  The second selection at its end only
\* assigns locals that die with the iteration, so it leaves no trace here.
PriorityTick ==
  /\ pc = "loop" /\ alg = "Priority"
  /\ WithinBounds
  /\ \E selected \in {Select(serviceTime)} :
    LET p == processes[selected]
        wts1 == IF selected > 0 /\ waitingTimes[selected] = 0
                THEN [waitingTimes EXCEPT ![selected] = serviceTime - p.ArrivalTime]
                ELSE waitingTimes
        sched1 == IF selected > 0 /\ ~containsPID(schedule, p.ProcessID)
                  THEN Append(schedule, PriorityRow(p, wts1[selected], serviceTime))
                  ELSE schedule
        finishes == selected > 0 /\ ~(remainingTime[selected] > 1)
        rem1 == IF selected = 0 THEN remainingTime
                ELSE IF remainingTime[selected] > 1
                     THEN [remainingTime EXCEPT ![selected] = @ - 1]
                     ELSE [remainingTime EXCEPT ![selected] = 0]
        st1 == PriorityServiceTime(selected)
    IN  /\ remainingTime' = rem1
        /\ schedule' = sched1
        /\ totalTurnaround' = IF finishes
                              THEN totalTurnaround + (serviceTime - p.ArrivalTime + 1)
                              ELSE totalTurnaround
        /\ lastCompletion' = IF finishes THEN serviceTime + 1 ELSE lastCompletion
        /\ gantt' = IF selected > 0
                    THEN Append(gantt, TimeSlice(p.ProcessID, serviceTime,
                                                 serviceTime + 1))
                    ELSE gantt
        /\ serviceTime' = st1
        /\ waitingTimes' = ResetArrivals(wts1, st1, rem1, sched1)
        /\ pc' = IF LoopCond(st1, sched1) THEN "loop" ELSE "out"
        /\ UNCHANGED <<processes, alg, timeQuantum, totalWait, waitingTime,
                       i, completed, summary>>

\* averageWait is computed from totalTurnaround.
PriorityOutput ==
    /\ pc = "out" /\ alg = "Priority"
    /\ summary' = [aveWait |-> FDiv(totalTurnaround, Len(processes)),
                   aveTurnaround |-> FDiv(totalTurnaround, Len(processes)),
                   aveThroughput |-> FDiv(Len(processes), lastCompletion)]
    /\ pc' = "done"
    /\ UNCHANGED <<processes, alg, timeQuantum, serviceTime, totalWait,
                   totalTurnaround, lastCompletion, waitingTime, waitingTimes,
                   remainingTime, schedule, gantt, i, completed>>

\* --------------------------------------------------------------- RRSchedule
RRCall ==
    /\ pc = "call" /\ alg = "RR"
    /\ \E q \in Quanta : timeQuantum' = q
    /\ Locals(processes)
    /\ schedule' = <<>>
    /\ pc' = IF LoopCond(0, <<>>) THEN "loop" ELSE "out"
    /\ UNCHANGED <<processes, alg>>

\* The locals a scan reads and writes, as one record.
RRLocals ==
    [serviceTime |-> serviceTime, waitingTimes |-> waitingTimes,
     schedule |-> schedule, remainingTime |-> remainingTime,
     totalTurnaround |-> totalTurnaround, gantt |-> gantt,
     completed |-> FALSE]

Eligible(k, s) ==
    processes[k].ArrivalTime <= s.serviceTime /\ s.remainingTime[k] > 0

\* The row has six cells: the running totalTurnaround lands in the Wait
\* column and there is no Exit cell.
RRRow(p, s) ==
    <<Sprint(p.ProcessID), Sprint(p.Priority), Sprint(p.BurstDuration),
      Sprint(p.ArrivalTime), Sprint(s.totalTurnaround),
      Sprint(s.totalTurnaround + p.ArrivalTime)>>

\* The slice is stamped with serviceTime - timeQuantum whatever was consumed.
RRSliceStart(st) == st - timeQuantum

\* The body of the scan for an eligible process k: one quantum, or what the
\* process has left.
RRDispatch(k, s) ==
    LET p == processes[k]
        partial == s.remainingTime[k] > timeQuantum
        st1 == IF partial THEN s.serviceTime + timeQuantum
               ELSE s.serviceTime + s.remainingTime[k]
    IN  [serviceTime |-> st1,
         waitingTimes |->
            IF s.waitingTimes[k] = 0
            THEN [s.waitingTimes EXCEPT ![k] = s.serviceTime - p.ArrivalTime]
            ELSE s.waitingTimes,
         schedule |->
            IF ~containsPID(s.schedule, p.ProcessID)
            THEN Append(s.schedule, RRRow(p, s))
            ELSE s.schedule,
         remainingTime |->
            IF partial THEN [s.remainingTime EXCEPT ![k] = @ - timeQuantum]
            ELSE [s.remainingTime EXCEPT ![k] = 0],
         totalTurnaround |->
            IF partial THEN s.totalTurnaround
            ELSE s.totalTurnaround + (st1 - p.ArrivalTime),
         gantt |-> Append(s.gantt, TimeSlice(p.ProcessID, RRSliceStart(st1), st1)),
         completed |-> IF partial THEN s.completed ELSE TRUE]

\* The scan over the processes in slice order, from index k on.
RECURSIVE RRScanFrom(_, _)
RRScanFrom(k, s) ==
    IF k > Len(processes) THEN s
    ELSE LET t == CHOOSE x \in {IF Eligible(k, s) THEN RRDispatch(k, s) ELSE s} : TRUE
         IN  RRScanFrom(k + 1, t)

\* serviceTime after the scan: one more unit when nothing completed.
RRAfterScan(s) == IF ~s.completed THEN s.serviceTime + 1 ELSE s.serviceTime

\* One iteration of the main loop: the scan, the extra tick, the
\* waitingTime reset, and the loop condition.
RRIteration ==
    /\ pc = "loop" /\ alg = "RR"
    /\ WithinBounds
    /\ \E s \in {RRScanFrom(1, RRLocals)} : \E st1 \in {RRAfterScan(s)} :
        /\ serviceTime' = st1
        /\ waitingTimes' = ResetArrivals(s.waitingTimes, st1, s.remainingTime,
                                         s.schedule)
        /\ schedule' = s.schedule
        /\ remainingTime' = s.remainingTime
        /\ totalTurnaround' = s.totalTurnaround
        /\ gantt' = s.gantt
        /\ completed' = s.completed
        /\ pc' = IF LoopCond(st1, s.schedule) THEN "loop" ELSE "out"
        /\ UNCHANGED <<processes, alg, timeQuantum, totalWait, lastCompletion,
                       waitingTime, i, summary>>

\* averageWait is computed from totalTurnaround; lastCompletion was never
\* assigned.
RROutput ==
    /\ pc = "out" /\ alg = "RR"
    /\ summary' = [aveWait |-> FDiv(totalTurnaround, Len(processes)),
                   aveTurnaround |-> FDiv(totalTurnaround, Len(processes)),
                   aveThroughput |-> FDiv(Len(processes), lastCompletion)]
    /\ pc' = "done"
    /\ UNCHANGED <<processes, alg, timeQuantum, serviceTime, totalWait,
                   totalTurnaround, lastCompletion, waitingTime, waitingTimes,
                   remainingTime, schedule, gantt, i, completed>>

\* ------------------------------------------------------------------- main
NextAlg(a) ==
    IF a = "FCFS" THEN "SJF" ELSE IF a = "SJF" THEN "Priority" ELSE "RR"

MainNext ==
    /\ pc = "done" /\ alg # "RR"
    /\ alg' = NextAlg(alg)
    /\ pc' = "call"
    /\ UNCHANGED <<processes, timeQuantum, serviceTime, totalWait,
                   totalTurnaround, lastCompletion, waitingTime, waitingTimes,
                   remainingTime, schedule, gantt, i, completed, summary>>

\* ------------------------------------------------------------ valid inputs
ValidInput ==
    /\ \A k \in 1..Len(processes) :
          processes[k].ArrivalTime >= 0 /\ processes[k].BurstDuration > 0
    /\ \A a, b \in 1..Len(processes) :
          a # b => processes[a].ProcessID # processes[b].ProcessID

ValidCall == ValidInput /\ (alg = "RR" => timeQuantum > 0)

\* No run on a valid input is cut short by WithinBounds.
BoundsNeverCutValidRun ==
    (ValidCall /\ pc = "loop" /\ alg \in {"Priority", "RR"}) => WithinBounds

\* ------------------------------------------------- reading the output back
\* The decimal texts of the numbers a run of this size can print.
Decimal == [n \in -200..200 |-> Sprint(n)]

\* The number a cell shows.
ParseInt(cell) == CHOOSE n \in DOMAIN Decimal : Decimal[n] = cell

\* Columns of the schedule table, by the header outputSchedule sets.
BurstCol == 3
WaitCol == 5
TurnaroundCol == 6
ExitCol == 7

\* The rows written so far (FCFS and SJF preallocate empty ones).
Rows == { k \in 1..Len(schedule) : Len(schedule[k]) >= TurnaroundCol }

RECURSIVE ColumnSum(_, _)
ColumnSum(col, k) ==
    IF k > Len(schedule) THEN 0
    ELSE ParseInt(schedule[k][col]) + ColumnSum(col, k + 1)

SlicesOf(pid) == { k \in 1..Len(gantt) : gantt[k].PID = pid }

RECURSIVE LengthFrom(_, _)
LengthFrom(pid, k) ==
    IF k > Len(gantt) THEN 0
    ELSE (IF gantt[k].PID = pid THEN gantt[k].Stop - gantt[k].Start ELSE 0)
         + LengthFrom(pid, k + 1)

SliceLengths == [k \in 1..Len(gantt) |-> gantt[k].Stop - gantt[k].Start]

GreatestStop ==
    CHOOSE t \in { gantt[k].Stop : k \in 1..Len(gantt) } :
        \A k \in 1..Len(gantt) : gantt[k].Stop <= t

\* ------------------------------------------------------------------ claims

\* C1: on a valid input (unique ids, arrivals >= 0, bursts > 0, quantum > 0
\* for RR) no two slices of the Gantt trace that belong to different
\* processes overlap in time.
GanttSlicesOfDistinctProcessesDisjoint ==
    (ValidCall /\ pc # "call") =>
        \A a, b \in 1..Len(gantt) :
            gantt[a].PID # gantt[b].PID =>
                (gantt[a].Stop <= gantt[b].Start \/ gantt[b].Stop <= gantt[a].Start)

\* C2: when the main loop of SJFPrioritySchedule exits on a valid input,
\* every process has remainingTime 0 and exactly BurstDuration unit slices
\* in the Gantt trace.
PriorityLoopExitsWithAllConsumed ==
    (alg = "Priority" /\ pc = "out" /\ ValidInput) =>
        \A k \in 1..Len(processes) :
            /\ remainingTime[k] = 0
            /\ Cardinality(SlicesOf(processes[k].ProcessID))
                  = processes[k].BurstDuration
            /\ \A j \in SlicesOf(processes[k].ProcessID) :
                  gantt[j].Stop = gantt[j].Start + 1

\* C3: when the main loop of RRSchedule exits on a valid input, every
\* process has remainingTime 0 and the lengths of its slices sum to its
\* BurstDuration; one process of burst 7 with quantum 3 gets slices of
\* lengths 3, 3, 1 and the last one stops at 7.
RRRunsEveryBurstToZero ==
    (alg = "RR" /\ pc = "out" /\ ValidCall) =>
        /\ \A k \in 1..Len(processes) :
              /\ remainingTime[k] = 0
              /\ LengthFrom(processes[k].ProcessID, 1) = processes[k].BurstDuration
        /\ (processes = ExampleRR /\ timeQuantum = 3) =>
              /\ SliceLengths = <<3, 3, 1>>
              /\ gantt[Len(gantt)].Stop = 7

\* Index of the process a slice belongs to.
ProcOf(pid) == CHOOSE k \in 1..Len(processes) : processes[k].ProcessID = pid

\* Slice j went to its process while process b, of strictly smaller priority
\* value, had arrived by the slice's start and still had work left.
PassedOver(b, j) ==
    /\ processes[b].Priority < processes[ProcOf(gantt[j].PID)].Priority
    /\ processes[b].ArrivalTime <= gantt[j].Start
    /\ Cardinality({ m \in 1..(j - 1) : gantt[m].PID = processes[b].ProcessID })
          < processes[b].BurstDuration

\* C4: SJFPrioritySchedule on arrivals [0,1], bursts [5,3], priorities
\* [2,1]: process 1 runs [0,1), process 2 runs [1,4) to completion, then
\* process 1 runs its remaining four units [4,8); and in general no tick
\* goes to a process while one of strictly smaller priority value has
\* arrived and is unfinished.
PriorityExamplePreemption ==
    (alg = "Priority" /\ pc = "out" /\ ValidInput) =>
        /\ \A j \in 1..Len(gantt) : \A b \in 1..Len(processes) : ~PassedOver(b, j)
        /\ processes = ExamplePriority =>
              gantt = <<TimeSlice(1, 0, 1), TimeSlice(2, 1, 2), TimeSlice(2, 2, 3),
                        TimeSlice(2, 3, 4), TimeSlice(1, 4, 5), TimeSlice(1, 5, 6),
                        TimeSlice(1, 6, 7), TimeSlice(1, 7, 8)>>

\* C5: on a valid input, in every row of the schedule table the Turnaround
\* cell is the Wait cell plus the process's burst.
TurnaroundIsWaitPlusBurst ==
    (ValidCall /\ pc # "call") =>
        \A k \in Rows :
            ParseInt(schedule[k][TurnaroundCol])
                = ParseInt(schedule[k][WaitCol]) + ParseInt(schedule[k][BurstCol])

\* C6: on a non-empty valid input, the averages handed to the output are
\* the sums of the Wait and Turnaround columns over the process count.
AveragesMatchColumnSums ==
    (ValidCall /\ pc = "done" /\ Len(processes) > 0) =>
        /\ summary.aveWait = FDiv(ColumnSum(WaitCol, 1), Len(processes))
        /\ summary.aveTurnaround = FDiv(ColumnSum(TurnaroundCol, 1), Len(processes))

\* C7: on a non-empty valid input, throughput is the process count over
\* lastCompletion, which is not zero and is the greatest Stop of the Gantt
\* trace.
ThroughputUsesLastCompletion ==
    (ValidCall /\ pc = "done" /\ Len(processes) > 0) =>
        /\ summary.aveThroughput.num = Len(processes)
        /\ summary.aveThroughput.den # 0
        /\ summary.aveThroughput.den = GreatestStop

\* C8: no step of any scheduler changes the caller's slice of processes.
SchedulersLeaveProcessesAlone == [][processes' = processes]_vars

\* C9: a scheduler called with zero processes hands no summary to the
\* output: no average or throughput is computed from a zero count.
EmptyProcessSetProducesNoSummary ==
    Len(processes) = 0 => summary = <<>>

\* C10: RRSchedule called with timeQuantum <= 0 does not enter its dispatch
\* loop and emits no Gantt slice, no row and no summary.
NonPositiveQuantumIsRejected ==
    (alg = "RR" /\ pc # "call" /\ timeQuantum <= 0) =>
        /\ pc # "loop"
        /\ gantt = <<>>
        /\ schedule = <<>>
        /\ summary = <<>>

\* C11: a process record with BurstDuration <= 0 is rejected before any
\* scheduler runs: no scheduler is past its call with such a process in
\* the slice.
NoSchedulerRunsOnNonPositiveBurst ==
    pc # "call" =>
        \A k \in 1..Len(processes) : processes[k].BurstDuration > 0

\* The numbers of one column, row by row (all rows written).
Column(col) == [k \in 1..Len(schedule) |-> ParseInt(schedule[k][col])]

FCFSExampleDone ==
    alg = "FCFS" /\ pc \in {"out", "done"} /\ processes = ExampleFCFS

\* C12 as stated: FCFSSchedule on arrivals [0,1,2], bursts [5,3,2] reports
\* waiting times [0,4,6] and completion times [5,9,11].
FCFSExampleAsStated ==
    FCFSExampleDone =>
        Column(WaitCol) = <<0, 4, 6>> /\ Column(ExitCol) = <<5, 9, 11>>

\* C12 as amended: FCFSSchedule on arrivals [0,1,2], bursts [5,3,2] reports
\* waiting times [0,4,6] and completion times [5,8,10].
FCFSExampleTimes ==
    FCFSExampleDone =>
        Column(WaitCol) = <<0, 4, 6>> /\ Column(ExitCol) = <<5, 8, 10>>

\* C12 witness: FCFSSchedule has output its three rows for the example.
FCFSExampleReached ==
    FCFSExampleDone /\ pc = "done" /\ Len(schedule) = 3 /\ Len(gantt) = 3

\* Burst of the process a slice belongs to.
BurstOfSlice(k) == processes[ProcOf(gantt[k].PID)].BurstDuration

\* C13: SJFSchedule emits its rows and its Gantt slices in non-decreasing
\* BurstDuration order whatever the arrival times are; on bursts [8,4,9,5]
\* with all arrivals 0 the rows come out in burst order [4,5,8,9] and the
\* burst-4 process is first, with waiting time 0 and completion time 4.
SJFEmitsInBurstOrder ==
    (alg = "SJF" /\ pc \in {"loop", "out", "done"}) =>
        /\ \A a, b \in Rows :
              a < b => ParseInt(schedule[a][BurstCol])
                          <= ParseInt(schedule[b][BurstCol])
        /\ \A a, b \in 1..Len(gantt) :
              a < b => BurstOfSlice(a) <= BurstOfSlice(b)
        /\ (pc # "loop" /\ { processes[k] : k \in 1..Len(processes) }
                             = { ExampleSJF[k] : k \in 1..Len(ExampleSJF) }) =>
              /\ Column(BurstCol) = <<4, 5, 8, 9>>
              /\ [k \in 1..Len(gantt) |-> BurstOfSlice(k)] = <<4, 5, 8, 9>>
              /\ ParseInt(schedule[1][WaitCol]) = 0
              /\ ParseInt(schedule[1][ExitCol]) = 4
              /\ gantt[1] = TimeSlice(ExampleSJF[2].ProcessID, 0, 4)

\* C13 witness: SJFSchedule has emitted every row of the four-process example.
SJFExampleReached ==
    /\ alg = "SJF" /\ pc = "out"
    /\ Len(processes) = Len(ExampleSJF) /\ Len(gantt) = Len(ExampleSJF)
    /\ processes[1] = ExampleSJF[2]

\* C14: on a valid input, in each of the four schedulers, the Start values
\* of the Gantt trace are non-decreasing along the emitted sequence.
GanttStartsNonDecreasing ==
    (ValidCall /\ pc # "call") =>
        \A k \in 1..(Len(gantt) - 1) : gantt[k].Start <= gantt[k + 1].Start

\* serviceTime when FCFSSchedule or SJFSchedule reaches processes[k]: the
\* bursts of the processes before it.
BurstsBefore(k) == SumBursts(processes, 1) - SumBursts(processes, k)

\* C15: in FCFSSchedule, and in SJFSchedule after its sort, every process
\* that is not first and arrives no later than the accumulated serviceTime
\* (the sum of the bursts of the processes before it) is given
\* waitingTime = serviceTime - ArrivalTime and a slice that starts at that
\* serviceTime, whatever its arrival time >= 0 is, 0 included.
LaterArrivedProcessWaitsFromServiceTime ==
    (alg \in {"FCFS", "SJF"} /\ pc \in {"loop", "out", "done"} /\ ValidInput) =>
        \A k \in Rows :
            (k > 1 /\ processes[k].ArrivalTime <= BurstsBefore(k)) =>
                /\ ParseInt(schedule[k][WaitCol])
                      = BurstsBefore(k) - processes[k].ArrivalTime
                /\ gantt[k].Start = BurstsBefore(k)

\* The slice is sorted ascending by ArrivalTime.
SortedByArrival ==
    \A a, b \in 1..Len(processes) :
        a < b => processes[a].ArrivalTime <= processes[b].ArrivalTime

\* C16: in FCFSSchedule on a valid input sorted ascending by arrival time, a
\* process that arrives while the server is idle (ArrivalTime greater than
\* the accumulated serviceTime) starts at its arrival time with waiting time
\* 0, and the reported waiting time of every process is >= 0.
FCFSIdleArrivalStartsAtOnce ==
    (alg = "FCFS" /\ pc \in {"loop", "out", "done"} /\ ValidInput
        /\ SortedByArrival) =>
        \A k \in Rows :
            /\ processes[k].ArrivalTime > BurstsBefore(k) =>
                  /\ ParseInt(schedule[k][WaitCol]) = 0
                  /\ gantt[k].Start = processes[k].ArrivalTime
            /\ ParseInt(schedule[k][WaitCol]) >= 0

\* The processes that have arrived by serviceTime and still have work left.
PriorityEligible ==
    { k \in 1..Len(processes) :
        processes[k].ArrivalTime <= serviceTime /\ remainingTime[k] > 0 }

\* Of those, the one with the smallest priority value, the smallest index
\* among equals.
PriorityChoice ==
    CHOOSE k \in PriorityEligible :
        \A j \in PriorityEligible :
            \/ processes[k].Priority < processes[j].Priority
            \/ processes[k].Priority = processes[j].Priority /\ k <= j

Least(a, b) == IF a < b THEN a ELSE b

\* C18: each slice RRSchedule emits for a dispatch starts at the value
\* serviceTime had at the dispatch (the loop's serviceTime for the first
\* dispatch of a scan, the previous slice's Stop for the next ones) and has
\* length min(remainingTime, timeQuantum), remainingTime taken before the
\* dispatch, for every timeQuantum > 0; so no slice starts before time 0.
RRSliceStartsAtDispatch ==
    [][(alg = "RR" /\ pc = "loop" /\ timeQuantum > 0) =>
          \A n \in (Len(gantt) + 1)..Len(gantt') :
              /\ gantt'[n].Start = (IF n = Len(gantt) + 1 THEN serviceTime
                                    ELSE gantt'[n - 1].Stop)
              /\ gantt'[n].Stop - gantt'[n].Start
                    = Least(remainingTime[ProcOf(gantt'[n].PID)], timeQuantum)
              /\ gantt'[n].Start >= 0]_vars

\* Sum of a sequence of numbers from index k on.
RECURSIVE SumFrom(_, _)
SumFrom(seq, k) == IF k > Len(seq) THEN 0 ELSE seq[k] + SumFrom(seq, k + 1)

\* CPU time one loop iteration of RRSchedule consumed, over all processes.
RRConsumed == SumFrom(remainingTime, 1) - SumFrom(remainingTime', 1)

\* C19: an iteration of RRSchedule's loop adds the 1-unit idle tick to
\* serviceTime if and only if no process was eligible during its scan (the
\* scan dispatched nothing: the Gantt trace did not grow); after
\* a scan that dispatched at least one process serviceTime has grown by the
\* CPU time consumed and by nothing else.
RRIdleTickOnlyWhenNoneEligible ==
    [][(alg = "RR" /\ pc = "loop" /\ ValidCall) =>
          serviceTime' = serviceTime + RRConsumed
                           + (IF Len(gantt') = Len(gantt) THEN 1 ELSE 0)]_vars

\* The schedule holds exactly one row for each process.
OneRowPerProcess ==
    /\ Len(schedule) = Len(processes)
    /\ \A k \in 1..Len(processes) :
          Cardinality({ r \in 1..Len(schedule) :
                          schedule[r][1] = Sprint(processes[k].ProcessID) }) = 1

\* A scheduler's main loop is running on a non-empty valid input.
LoopRunsOnValidInput(a) ==
    alg = a /\ pc = "loop" /\ Len(processes) > 0 /\ ValidCall

Next ==
    \/ FCFSCall \/ FCFSStep \/ FCFSOutput
    \/ SJFCall \/ SJFSort \/ SJFStep \/ SJFOutput
    \/ PriorityCall \/ PriorityTick \/ PriorityOutput
    \/ RRCall \/ RRIteration \/ RROutput
    \/ MainNext

Spec == Init /\ [][Next]_vars

\* The program is one sequential thread: while a statement is left to run,
\* it runs.
FairSpec == Spec /\ WF_vars(Next)

====
